---------------------------- MODULE Spec2Model ----------------------------
(***************************************************************************)
(* Bill Buddy AI: the voice assistant's conversation controller            *)
(* (src/src/components/VoiceAssistant.tsx), the speech-recognition hook    *)
(* that feeds it (src/src/hooks/use-speech-recognition.tsx) and the page   *)
(* that hosts it (src/src/pages/Index.tsx); the sales page's cart and bill  *)
(* generation (SellProducts, src/unnamed/part_000); and the sale-details   *)
(* wizard (src/src/components/SaleDetailsDialog.tsx).                      *)
(*                                                                         *)
(* React semantics used throughout: a handler's state updates are batched  *)
(* and applied in one render (React 18), effects run after the render when *)
(* one of their dependencies changed, and a timer callback sees the props  *)
(* and state of the render that scheduled it (closure capture).            *)
(*                                                                         *)
(* Text: a transcript is a sequence of words (the words of a trimmed,      *)
(* single-space separated string); "" is the empty sequence.  Time: one    *)
(* tick is 500 ms, every setTimeout delay of the code is a multiple of it. *)
(***************************************************************************)
EXTENDS Integers, Sequences, FiniteSets, TLC

(***************************************************************************)
(* Bounds of the model.                                                    *)
(***************************************************************************)
MaxResults == 2
MaxTimers == 2
MaxClicks == 3
MaxRetries == 3
MaxWords == 2

(***************************************************************************)
(* Delays of the code's timers, in ticks of 500 ms.                        *)
(***************************************************************************)
ActivateDelay == 1
ProcessDelay == 2
AutoStartDelay == 2
SearchDelay == 3
MessageResetDelay == 4
NavigateDelay == 5

\* The catalog search returns at most this many rows (.limit(5)).
SearchLimit == 5

None == "none"

FormField == {"customer_name", "vehicle_info", "product_search", "add_product", "confirm_bill"}

(***************************************************************************)
(* Words and strings.                                                      *)
(***************************************************************************)
\* String.prototype.toLowerCase on one word, and on a transcript.
LowerWord(w) ==
    CASE w = "Raj" -> "raj"
      [] w = "John" -> "john"
      [] w = "Brake" -> "brake"
      [] w = "Honda" -> "honda"
      [] w = "Activa" -> "activa"
      [] w = "No" -> "no"
      [] w = "Second" -> "second"
      [] w = "Bill" -> "bill"
      [] OTHER -> w

toLowerCase(words) == [i \in 1..Len(words) |-> LowerWord(words[i])]

IsPrefixOf(p, words) == Len(p) <= Len(words) /\ SubSeq(words, 1, Len(p)) = p

\* Whether a phrase occurs in the transcript at whole-word positions:
\* the regular expression /\b(a|b|...)\b/ for one alternative.
OccursAt(phrase, words, i) ==
    /\ i + Len(phrase) - 1 <= Len(words)
    /\ SubSeq(words, i, i + Len(phrase) - 1) = phrase

MatchesAny(phrases, words) ==
    \E p \in phrases : \E i \in 1..Len(words) : OccursAt(p, words, i)

\* String.prototype.replace(/^(f1|f2|...)\s+/i, ""): the alternatives are tried in
\* the order written, and one matches when it is a prefix followed by white space,
\* that is, by at least one more word.
RECURSIVE FirstFiller(_, _, _)
FirstFiller(fillers, words, k) ==
    IF k > Len(fillers) THEN 0
    ELSE IF IsPrefixOf(fillers[k], words) /\ Len(words) > Len(fillers[k]) THEN k
    ELSE FirstFiller(fillers, words, k + 1)

StripPrefix(fillers, words) ==
    LET k == FirstFiller(fillers, words, 1)
    IN  IF k = 0 THEN words ELSE SubSeq(words, Len(fillers[k]) + 1, Len(words))

CustomerNameFillers ==
    << <<"name", "is">>, <<"this", "is">>, <<"it's">>, <<"its">>, <<"the", "name", "is">>,
       <<"customer", "name", "is">>, <<"customer", "is">>, <<"customer">>, <<"name">>,
       <<"my", "name", "is">> >>

VehicleInfoFillers ==
    << <<"vehicle", "is">>, <<"it's">>, <<"its">>, <<"the", "vehicle", "is">>,
       <<"vehicle", "info", "is">>, <<"vehicle", "information", "is">>, <<"vehicle">>,
       <<"info">>, <<"information">> >>

ProductSearchFillers ==
    << <<"product", "is">>, <<"it's">>, <<"its">>, <<"the", "product", "is">>,
       <<"product", "name", "is">>, <<"name", "is">>, <<"search", "for">>, <<"find">>,
       <<"look", "for">>, <<"product">> >>

AffirmativeKeywords ==
    { <<"yes">>, <<"yeah">>, <<"yep">>, <<"sure">>, <<"ok">>, <<"okay">>, <<"of", "course">>,
      <<"certainly">>, <<"add">>, <<"more">> }

TerminalKeywords ==
    { <<"no">>, <<"nope">>, <<"done">>, <<"finish">>, <<"complete">>, <<"generate">>,
      <<"create", "bill">> }


\* The words of String.prototype.match(/\b(first|1st|one|...|five)\b|(\d+)/i) that the
\* first alternative matches, with the index handleProductSelection's switch gives them.
OrdinalIndex(w) ==
    CASE w \in {"first", "1st", "one"} -> 0
      [] w \in {"second", "2nd", "two"} -> 1
      [] w \in {"third", "3rd", "three"} -> 2
      [] w \in {"fourth", "4th", "four"} -> 3
      [] w \in {"fifth", "5th", "five"} -> 4
      [] OTHER -> -1

\* parseInt(match, 10) of the first run of digits in a word, -1 when it has none.
DigitRun(w) ==
    CASE w = "0" -> 0
      [] w = "1" -> 1
      [] w = "2" -> 2
      [] w = "3" -> 3
      [] w = "4" -> 4
      [] w = "5" -> 5
      [] w = "6" -> 6
      [] w = "7" -> 7
      [] w = "2020" -> 2020
      [] w = "21st" -> 21
      [] OTHER -> -1

\* The position of the leftmost word the regular expression matches, 0 when none.
RECURSIVE numberMatch(_, _)
numberMatch(words, i) ==
    IF i > Len(words) THEN 0
    ELSE IF OrdinalIndex(words[i]) >= 0 \/ DigitRun(words[i]) >= 0 THEN i
    ELSE numberMatch(words, i + 1)

\* selectedIndex with a digit accepted only below the number of results.
selectedIndexBelowCount(selection, count) ==
    LET m == numberMatch(selection, 1)
    IN  IF m = 0 THEN -1
        ELSE IF OrdinalIndex(selection[m]) >= 0 THEN OrdinalIndex(selection[m])
        ELSE LET num == DigitRun(selection[m])
             IN  IF num > 0 /\ num < count THEN num - 1 ELSE -1

\* handleProductSelection, lines 228-268: the zero-based index, -1 when none.
selectedIndex(selection, count) ==
    LET m == numberMatch(selection, 1)
    IN  IF m = 0 THEN -1
        ELSE IF OrdinalIndex(selection[m]) >= 0 THEN OrdinalIndex(selection[m])
        ELSE LET num == DigitRun(selection[m])
             IN  IF num > 0 /\ num <= count THEN num - 1 ELSE -1

\* String.prototype.includes: the phrase occurs anywhere in the text, also inside
\* longer words.  EndsWith and StartsWith give the words of the model that end or
\* start with a word of a trigger phrase.
EndsWith(w, x) == w = x \/ (w = "resell" /\ x = "sell")

StartsWith(w, x) ==
    \/ w = x
    \/ (w = "products" /\ x = "product")
    \/ (w = "bills" /\ x = "bill")

IncludesAt(phrase, words, i) ==
    LET n == Len(phrase)
    IN  /\ i + n - 1 <= Len(words)
        /\ \A k \in 1..n :
              LET w == words[i + k - 1]
              IN  CASE n = 1 -> w = phrase[k]
                    [] k = 1 /\ n > 1 -> EndsWith(w, phrase[k])
                    [] k = n /\ n > 1 -> StartsWith(w, phrase[k])
                    [] OTHER -> w = phrase[k]

includes(words, phrase) == \E i \in 1..Len(words) : IncludesAt(phrase, words, i)

TriggerPhrases ==
    { <<"bill", "banao">>, <<"create", "bill">>, <<"sell", "product">>,
      <<"create", "a", "sell", "bill">>, <<"sell", "bill">> }

\* IsTrigger matching the phrases as whole words.
IsTriggerWholeWords(lowerTranscript) == MatchesAny(TriggerPhrases, lowerTranscript)

IsTrigger(lowerTranscript) == \E p \in TriggerPhrases : includes(lowerTranscript, p)

(***************************************************************************)
(* State.                                                                  *)
(***************************************************************************)
VARIABLES
    hasRecognitionSupport,  \* hook: a recognition instance exists
    engine,                 \* the browser's recognizer: "on" or "off"
    isListening,            \* hook state
    transcript,             \* hook state
    assistantActive,        \* host page state, the isActive prop
    urlAssistant,           \* window.location.search has assistant=true
    searchResults,          \* the searchResults prop
    searchPending,          \* an onProductSearch request is not answered yet
    activeField,            \* VoiceAssistant state
    conversationStep,
    assistantMessage,
    processingCommand,
    isThinking,
    utterances,             \* utterances in the synthesizer's queue; the first is being spoken
    timers,                 \* pending setTimeout callbacks, in scheduling order
    effects,                \* the side effects of the latest step, in order
    lastEvent,              \* the latest step: the event handled and its input
    clicks,                 \* number of clicks the user has made
    generated,              \* generate_bill commands since the flow was last started (2: more than one)
    retries,                \* the inputs in a row that the active field has rejected
    orphans,                \* how many of the first timers were pending at the latest close
    cartItems,              \* sales page state: the lines of the cart
    customerName,           \* sales page state
    vehicleInfo,            \* sales page state
    db,                     \* the backend: bills, bill_items and products.product_quantity
    job,                    \* the handleGenerateBill call in progress
    dialog                  \* the sale-details wizard: its state, the isOpen prop, the save in progress

vars == <<hasRecognitionSupport, engine, isListening, transcript, assistantActive,
          urlAssistant, searchResults, searchPending, activeField, conversationStep,
          assistantMessage, processingCommand, isThinking, utterances, timers, effects,
          lastEvent, clicks, generated, retries, orphans, cartItems, customerName,
          vehicleInfo, db, job, dialog>>

\* The sales page's cart and the backend, and everything else.
cartVars == <<cartItems, customerName, vehicleInfo, db, job>>

voiceVars == <<hasRecognitionSupport, engine, isListening, transcript, assistantActive,
               urlAssistant, searchResults, searchPending, activeField, conversationStep,
               assistantMessage, processingCommand, isThinking, utterances, timers,
               clicks, generated, retries, orphans>>

\* The state as one value, so that handlers are functions from state to state.
Cur ==
    [ engine |-> engine, isListening |-> isListening, transcript |-> transcript,
      assistantActive |-> assistantActive, urlAssistant |-> urlAssistant,
      searchResults |-> searchResults, searchPending |-> searchPending,
      activeField |-> activeField, conversationStep |-> conversationStep,
      assistantMessage |-> assistantMessage, processingCommand |-> processingCommand,
      isThinking |-> isThinking, utterances |-> utterances, timers |-> timers,
      effects |-> effects,
      lastEvent |-> lastEvent, clicks |-> clicks ]

\* pos: which of the pending timers the event is the firing of, 0 when of none.
\* isFinal: for a recognition result, the isFinal flag of the result the engine reports.
Event(kind, af, input, results) ==
    [kind |-> kind, af |-> af, input |-> input, results |-> results, pos |-> 0,
     isFinal |-> TRUE]

Begin(e) == [Cur EXCEPT !.effects = <<>>, !.lastEvent = e]

\* A click of the user.
Clicked(e) == [Begin(e) EXCEPT !.clicks = @ + 1]

\* A message: a fixed text with the value interpolated into it.
Msg(text, words) == [text |-> text, arg |-> words]

\* One side effect: a call that leaves the component.
Fx(op, text, words, num) == [op |-> op, text |-> text, arg |-> words, num |-> num]

Emit(s, e) == [s EXCEPT !.effects = Append(@, e)]

Timer(kind, left, af, input, results) ==
    [kind |-> kind, left |-> left, af |-> af, input |-> input, results |-> results]

setTimeout(s, t) == [s EXCEPT !.timers = Append(@, t)]

\* The catalog collaborator's answer to a query: count rows, each marked as the
\* answer to the latest request ("latest") until the next request is made ("earlier").
ProductNames == <<"brake pad", "brake shoe", "brake cable", "brake disc", "brake oil", "brake lever">>

Results(query, count) == [i \in 1..count |-> [query |-> query, product_name |-> ProductNames[i]]]

Earlier(results) == [i \in 1..Len(results) |-> [results[i] EXCEPT !.query = "earlier"]]

\* onProductSearch as the sales page wires it: the query goes to the catalog search,
\* whose answer arrives later.
onProductSearch(s, query) ==
    Emit([s EXCEPT !.searchPending = TRUE, !.searchResults = Earlier(@)],
         Fx("onProductSearch", "", query, 0))


(***************************************************************************)
(* The speech-recognition hook.                                            *)
(***************************************************************************)
\* startListening: nothing without a recognition instance; otherwise isListening,
\* an empty transcript, and recognition.start() (which throws, caught, when the
\* recognizer already runs).
startListening(s) ==
    IF ~hasRecognitionSupport THEN s
    ELSE Emit([s EXCEPT !.isListening = TRUE, !.transcript = <<>>, !.engine = "on"],
              Fx("startListening", "", <<>>, 0))

stopListening(s) ==
    IF ~hasRecognitionSupport THEN s
    ELSE Emit([s EXCEPT !.isListening = FALSE, !.engine = "off"],
              Fx("stopListening", "", <<>>, 0))

resetTranscript(s) == [s EXCEPT !.transcript = <<>>]

\* recognitionInstance.onend, hook lines 42-46.  The handler is created by the mount
\* effect (lines 19-57, dependencies []), so the isListening it reads is the one of the
\* render that ran that effect: the initial state of line 15.
isListeningAtMount == FALSE

onend(s) == IF isListeningAtMount THEN [s EXCEPT !.engine = "on"] ELSE s

\* recognitionInstance.onerror, hook lines 37-40: it calls the stopListening of the
\* render that ran the mount effect, whose recognition (line 16) is still null, so
\* that stopListening returns at its first line (line 73).
recognitionAtMount == None

onerror(s) == IF recognitionAtMount = None THEN s ELSE stopListening(s)

(***************************************************************************)
(* The voice assistant: prompts and field handlers.                        *)
(***************************************************************************)
setAssistantMessage(s, msg) == [s EXCEPT !.assistantMessage = msg]

\* speechSynthesis.cancel(): the queue is emptied, the utterance in progress included.
cancel(s) == [s EXCEPT !.utterances = 0]

\* speak without the cancel of lines 74-76: the utterance is queued behind the others.
speakQueued(s, msg) ==
    Emit([s EXCEPT !.utterances = @ + 1], Fx("speak", msg.text, msg.arg, 0))

\* speak, lines 70-80.  The effect's number is how many utterances the call cancelled.
speak(s, msg) ==
    LET s1 == IF s.utterances > 0 THEN cancel(s) ELSE s
    IN  Emit([s1 EXCEPT !.utterances = @ + 1], Fx("speak", msg.text, msg.arg, s.utterances))

startConversationFlow(s) ==
    LET s1 == [s EXCEPT !.activeField = "customer_name", !.conversationStep = 1]
        s2 == setAssistantMessage(s1, Msg("What is the customer's name?", <<>>))
        s3 == speak(s2, Msg("What is the customer's name?", <<>>))
    IN  startListening(s3)

handleCustomerName(s, name) ==
    LET cleanName == StripPrefix(CustomerNameFillers, name)
        s1 == Emit(s, Fx("onFieldUpdate", "customer_name", cleanName, 0))
        s2 == setAssistantMessage(s1, Msg("Customer name set to {}. What is the vehicle information?", cleanName))
        s3 == speak(s2, Msg("Customer name set to {}. What is the vehicle information?", cleanName))
        s4 == [s3 EXCEPT !.activeField = "vehicle_info", !.conversationStep = 2]
    IN  startListening(s4)

\* handleVehicleInfo resuming the recognizer before it gives the prompt.
handleVehicleInfoListensFirst(s, info) ==
    LET cleanInfo == StripPrefix(VehicleInfoFillers, info)
        s1 == Emit(s, Fx("onFieldUpdate", "vehicle_info", cleanInfo, 0))
        s2 == startListening(s1)
        s3 == setAssistantMessage(s2, Msg("Vehicle information set to {}. What product would you like to add?", cleanInfo))
        s4 == speak(s3, Msg("Vehicle information set to {}. What product would you like to add?", cleanInfo))
    IN  [s4 EXCEPT !.activeField = "product_search", !.conversationStep = 3]

handleVehicleInfo(s, info) ==
    LET cleanInfo == StripPrefix(VehicleInfoFillers, info)
        s1 == Emit(s, Fx("onFieldUpdate", "vehicle_info", cleanInfo, 0))
        s2 == setAssistantMessage(s1, Msg("Vehicle information set to {}. What product would you like to add?", cleanInfo))
        s3 == speak(s2, Msg("Vehicle information set to {}. What product would you like to add?", cleanInfo))
        s4 == [s3 EXCEPT !.activeField = "product_search", !.conversationStep = 3]
    IN  startListening(s4)

\* results: the searchResults of the render whose handler this is.
handleProductSearch(s, product, results) ==
    LET cleanProduct == StripPrefix(ProductSearchFillers, product)
        s1 == onProductSearch(s, cleanProduct)
        s2 == setAssistantMessage(s1, Msg("Searching for {}...", cleanProduct))
        s3 == speak(s2, Msg("Searching for {}", cleanProduct))
    IN  setTimeout(s3, Timer("search", SearchDelay, None, <<>>, results))

\* The continuation handleProductSearch schedules, lines 212-224.
searchResultsAvailable(s, results) ==
    IF Len(results) > 0
    THEN LET s1 == [s EXCEPT !.activeField = "add_product"]
             s2 == setAssistantMessage(s1, Msg("I found some products. Which one would you like to add?", <<>>))
             s3 == speak(s2, Msg("I found some products. Which one would you like to add?", <<>>))
         IN  startListening(s3)
    ELSE LET s1 == setAssistantMessage(s, Msg("I couldn't find any products matching that description. Please try another search.", <<>>))
             s2 == speak(s1, Msg("I couldn't find any products matching that description. Please try another search.", <<>>))
             s3 == [s2 EXCEPT !.activeField = "product_search"]
         IN  startListening(s3)

\* handleProductSelection's two branches, lines 271-281 and 283-285.
productSelected(s, index, results) ==
    LET productName == results[index + 1].product_name
        s1 == Emit(s, Fx("onProductSelect", "", <<>>, index))
        s2 == setAssistantMessage(s1, Msg("Added {} to the cart. Would you like to add another product?", <<productName>>))
        s3 == speak(s2, Msg("Added {} to the cart. Would you like to add another product?", <<productName>>))
        s4 == [s3 EXCEPT !.activeField = "confirm_bill", !.conversationStep = 4]
    IN  startListening(s4)

\* The re-prompt of handleProductSelection without the startListening of line 285.
productNotUnderstoodDeaf(s) ==
    LET s1 == setAssistantMessage(s, Msg("I'm not sure which product you meant. Please try again, saying first, second, etc.", <<>>))
    IN  speak(s1, Msg("I'm not sure which product you meant. Please try again, saying first, second, etc.", <<>>))

productNotUnderstood(s) ==
    LET s1 == setAssistantMessage(s, Msg("I'm not sure which product you meant. Please try again, saying first, second, etc.", <<>>))
        s2 == speak(s1, Msg("I'm not sure which product you meant. Please try again, saying first, second, etc.", <<>>))
    IN  startListening(s2)

\* handleProductSelection going back to the product search when it does not understand.
handleProductSelectionSearchesAgain(s, selection, results) ==
    LET index == selectedIndex(selection, Len(results))
    IN  IF index >= 0 /\ index < Len(results)
        THEN productSelected(s, index, results)
        ELSE [productNotUnderstood(s) EXCEPT !.activeField = "product_search"]

handleProductSelection(s, selection, results) ==
    LET index == selectedIndex(selection, Len(results))
    IN  IF index >= 0 /\ index < Len(results)
        THEN productSelected(s, index, results)
        ELSE productNotUnderstood(s)

\* handleBillConfirmation's three branches, lines 291-295, 297-308 and 310-312.
addAnotherProduct(s) ==
    LET s1 == setAssistantMessage(s, Msg("What product would you like to add next?", <<>>))
        s2 == speak(s1, Msg("What product would you like to add next?", <<>>))
        s3 == [s2 EXCEPT !.activeField = "product_search", !.conversationStep = 3]
    IN  startListening(s3)

generateBill(s) ==
    LET s1 == setAssistantMessage(s, Msg("Generating the bill now...", <<>>))
        s2 == speak(s1, Msg("Generating the bill now", <<>>))
        s3 == Emit(s2, Fx("onCommand", "generate_bill", <<>>, 0))
        s4 == [s3 EXCEPT !.activeField = None, !.conversationStep = 0]
    IN  setTimeout(s4, Timer("message", MessageResetDelay, None, <<>>, <<>>))

confirmationNotUnderstood(s) ==
    LET s1 == setAssistantMessage(s, Msg("Please say yes to add more products or no to generate the bill.", <<>>))
        s2 == speak(s1, Msg("Please say yes to add more products or no to generate the bill.", <<>>))
    IN  startListening(s2)

\* handleBillConfirmation with the terminal keywords tested before the affirmative ones.
handleBillConfirmationTerminalFirst(s, response) ==
    IF MatchesAny(TerminalKeywords, response) THEN generateBill(s)
    ELSE IF MatchesAny(AffirmativeKeywords, response) THEN addAnotherProduct(s)
    ELSE confirmationNotUnderstood(s)

\* handleBillConfirmation whose terminal branch leaves conversationStep as it is.
handleBillConfirmationStepKept(s, response) ==
    IF MatchesAny(AffirmativeKeywords, response) THEN addAnotherProduct(s)
    ELSE IF MatchesAny(TerminalKeywords, response)
    THEN [generateBill(s) EXCEPT !.conversationStep = s.conversationStep]
    ELSE confirmationNotUnderstood(s)

\* handleBillConfirmation ending the conversation when it does not understand.
handleBillConfirmationGivesUp(s, response) ==
    IF MatchesAny(AffirmativeKeywords, response) THEN addAnotherProduct(s)
    ELSE IF MatchesAny(TerminalKeywords, response) THEN generateBill(s)
    ELSE [confirmationNotUnderstood(s) EXCEPT !.activeField = None, !.conversationStep = 0]

handleBillConfirmation(s, response) ==
    IF MatchesAny(AffirmativeKeywords, response) THEN addAnotherProduct(s)
    ELSE IF MatchesAny(TerminalKeywords, response) THEN generateBill(s)
    ELSE confirmationNotUnderstood(s)

\* The searchResults a field's handler reads: the handlers of the other fields
\* never look at the list their closure holds.
closureResults(field, results) ==
    IF field \in {"product_search", "add_product"} THEN results ELSE <<>>

\* handleConversationInput up to its setTimeout; the timer keeps the activeField and
\* the searchResults of the render that scheduled it.
handleConversationInput(s, input) ==
    IF s.activeField = None THEN s
    ELSE LET s1 == stopListening([s EXCEPT !.isThinking = TRUE])
         IN  setTimeout(s1, Timer("process", ProcessDelay, s.activeField, input,
                                  closureResults(s.activeField, s.searchResults)))

\* The continuation handleConversationInput schedules, lines 147-167.
processInput(s, t) ==
    LET s1 == [s EXCEPT !.isThinking = FALSE]
    IN  CASE t.af = "customer_name" -> handleCustomerName(s1, t.input)
          [] t.af = "vehicle_info" -> handleVehicleInfo(s1, t.input)
          [] t.af = "product_search" -> handleProductSearch(s1, t.input, t.results)
          [] t.af = "add_product" -> handleProductSelection(s1, t.input, t.results)
          [] t.af = "confirm_bill" -> handleBillConfirmation(s1, t.input)
          [] OTHER -> s1


(***************************************************************************)
(* The voice assistant's effects.  pre is the render before, h the render  *)
(* the effects run after, s the state their updates accumulate in.         *)
(***************************************************************************)
\* useEffect(..., [isListening, processingCommand, activeField]), lines 83-100.
listeningEffect(pre, h, s) ==
    IF /\ h.isListening = pre.isListening
       /\ h.processingCommand = pre.processingCommand
       /\ h.activeField = pre.activeField
    THEN s
    ELSE IF h.isListening
    THEN IF h.activeField = None THEN setAssistantMessage(s, Msg("Listening...", <<>>)) ELSE s
    ELSE IF ~h.processingCommand /\ h.activeField = None
    THEN setAssistantMessage(s, Msg("How can I help you?", <<>>))
    ELSE s

\* The command dispatcher navigating at once, without the settle delay.
dispatchCommandAtOnce(s, lowerTranscript) ==
    IF IsTrigger(lowerTranscript)
    THEN LET s1 == stopListening(s)
             s2 == [s1 EXCEPT !.processingCommand = TRUE]
             s3 == setAssistantMessage(s2, Msg("Creating a new bill. Let me take you to the sales page.", <<>>))
             s4 == speak(s3, Msg("Creating a new bill. Let me take you to the sales page.", <<>>))
         IN  setTimeout(s4, Timer("navigate", 0, None, <<>>, <<>>))
    ELSE s

\* The command dispatcher of the transcript effect, lines 115-130.
dispatchCommand(s, lowerTranscript) ==
    IF IsTrigger(lowerTranscript)
    THEN LET s1 == stopListening(s)
             s2 == [s1 EXCEPT !.processingCommand = TRUE]
             s3 == setAssistantMessage(s2, Msg("Creating a new bill. Let me take you to the sales page.", <<>>))
             s4 == speak(s3, Msg("Creating a new bill. Let me take you to the sales page.", <<>>))
         IN  setTimeout(s4, Timer("navigate", NavigateDelay, None, <<>>, <<>>))
    ELSE s

\* The transcript effect looking for a trigger phrase before it looks at activeField.
transcriptEffectCommandFirst(pre, h, s, hostRendered) ==
    IF /\ h.transcript = pre.transcript
       /\ h.isListening = pre.isListening
       /\ h.activeField = pre.activeField
       /\ ~hostRendered
    THEN s
    ELSE IF ~h.isListening \/ h.transcript = <<>> THEN s
    ELSE LET lowerTranscript == toLowerCase(h.transcript)
         IN  IF IsTrigger(lowerTranscript) THEN dispatchCommand(s, lowerTranscript)
             ELSE IF h.activeField # None THEN handleConversationInput(s, lowerTranscript)
             ELSE s

\* useEffect(..., [transcript, isListening, stopListening, onCommand, navigate, onClose,
\* activeField]), lines 103-131.  onCommand and onClose are new functions on every
\* render of the host page (hostRendered).
transcriptEffect(pre, h, s, hostRendered) ==
    IF /\ h.transcript = pre.transcript
       /\ h.isListening = pre.isListening
       /\ h.activeField = pre.activeField
       /\ ~hostRendered
    THEN s
    ELSE IF ~h.isListening \/ h.transcript = <<>> THEN s
    ELSE LET lowerTranscript == toLowerCase(h.transcript)
         IN  IF h.activeField # None THEN handleConversationInput(s, lowerTranscript)
             ELSE dispatchCommand(s, lowerTranscript)

\* useEffect(..., [isActive, conversationStep, activeField]), lines 317-327.
autoStartEffect(pre, h, s) ==
    IF /\ h.assistantActive = pre.assistantActive
       /\ h.conversationStep = pre.conversationStep
       /\ h.activeField = pre.activeField
    THEN s
    ELSE IF h.assistantActive /\ h.conversationStep = 0 /\ h.activeField = None /\ h.urlAssistant
    THEN setTimeout(s, Timer("autostart", AutoStartDelay, None, <<>>, <<>>))
    ELSE s

\* The effects of one render, in the order the component declares them.
runEffects(pre, h, hostRendered) ==
    autoStartEffect(pre, h, transcriptEffect(pre, h, listeningEffect(pre, h, h), hostRendered))

\* Render after render until no effect changes the state any more.
settled(h1, h2) == IF h2 = h1 THEN h2 ELSE runEffects(h1, h2, FALSE)

rerender(h, h1) == IF h1 = h THEN h1 ELSE settled(h1, runEffects(h, h1, FALSE))

settle(pre, h, hostRendered) == rerender(h, runEffects(pre, h, hostRendered))

\* The number of effects of s that call op.
RECURSIVE Count(_, _)
Count(es, op) ==
    IF es = <<>> THEN 0
    ELSE (IF Head(es).op = op THEN 1 ELSE 0) + Count(Tail(es), op)

Calls(es, op) == {i \in 1..Len(es) : es[i].op = op}

\* An input that the field's handler answers with its clarifying prompt: in add_product
\* no index inside the list, in confirm_bill no keyword of either set.
Rejected(field, input, results) ==
    \/ /\ field = "add_product"
       /\ selectedIndex(input, Len(results)) \notin 0..(Len(results) - 1)
    \/ /\ field = "confirm_bill"
       /\ ~MatchesAny(AffirmativeKeywords, input)
       /\ ~MatchesAny(TerminalKeywords, input)

NoRetries == [field |-> None, count |-> 0]

\* History: what the step n.lastEvent adds to generated, retries and orphans.
Observed(n) ==
    LET e == n.lastEvent
    IN  /\ generated' =
              IF e.kind \in {"autostart", "navigate"} THEN 0
              ELSE IF generated + Count(n.effects, "onCommand") > 1 THEN 2
              ELSE generated + Count(n.effects, "onCommand")
        /\ retries' =
              IF e.kind = "process" /\ e.af = activeField /\ Rejected(e.af, e.input, e.results)
              THEN [field |-> e.af,
                    count |-> IF retries.field # e.af THEN 1
                              ELSE IF retries.count < MaxRetries THEN retries.count + 1
                              ELSE MaxRetries]
              ELSE IF e.kind \in {"process", "search", "autostart", "navigate", "click close"}
              THEN NoRetries
              ELSE retries
        /\ orphans' =
              IF e.kind = "click close" THEN Len(timers)
              ELSE IF e.kind \in {"click activate", "navigate"} THEN 0
              ELSE IF e.pos > 0 /\ e.pos <= orphans THEN orphans - 1
              ELSE orphans

\* The next state is n.
Becomes(n) ==
    /\ Len(n.timers) <= MaxTimers
    /\ engine' = n.engine
    /\ isListening' = n.isListening
    /\ transcript' = n.transcript
    /\ assistantActive' = n.assistantActive
    /\ urlAssistant' = n.urlAssistant
    /\ searchResults' = n.searchResults
    /\ searchPending' = n.searchPending
    /\ activeField' = n.activeField
    /\ conversationStep' = n.conversationStep
    /\ assistantMessage' = n.assistantMessage
    /\ processingCommand' = n.processingCommand
    /\ isThinking' = n.isThinking
    /\ utterances' = n.utterances
    /\ timers' = n.timers
    /\ effects' = n.effects
    /\ lastEvent' = n.lastEvent
    /\ clicks' = n.clicks
    /\ Observed(n)
    /\ UNCHANGED hasRecognitionSupport
    /\ UNCHANGED cartVars
    /\ UNCHANGED dialog

\* A handler's batched updates are rendered, the effects run, and the result is the
\* next state.
CommitFrom(pre, h, hostRendered) == Becomes(settle(pre, h, hostRendered))

Commit(h, hostRendered) == CommitFrom(Cur, h, hostRendered)

(***************************************************************************)
(* The sales page (SellProducts): numbers, products, cart and backend.     *)
(***************************************************************************)
\* NaN, as parseInt("") and parseFloat("") return it: a value outside the numbers the
\* model computes with.  Arithmetic on it gives NaN and every comparison with it is false.
NaN == 0 - 1000000

IsNumber(x) == x # NaN

Add(a, b) == IF a = NaN \/ b = NaN THEN NaN ELSE a + b

Sub(a, b) == IF a = NaN \/ b = NaN THEN NaN ELSE a - b

Mul(a, b) == IF a = NaN \/ b = NaN THEN NaN ELSE a * b

\* a / b.  Amounts are counted in a unit small enough that the divisions of the model
\* are exact: prices are multiples of 6 and quantities at most 3.
Div(a, b) == IF a = NaN \/ b = NaN THEN NaN ELSE a \div b

Lt(a, b) == a # NaN /\ b # NaN /\ a < b

Le(a, b) == a # NaN /\ b # NaN /\ a <= b

Gt(a, b) == a # NaN /\ b # NaN /\ a > b

Ge(a, b) == a # NaN /\ b # NaN /\ a >= b

\* parseInt and parseFloat of what a number field holds; "" is the field cleared.
QuantityTexts == {"", "0", "1", "2", "3"}

PriceTexts == {"", "-6", "0", "6", "18"}

parseInt(text) ==
    CASE text = "0" -> 0
      [] text = "1" -> 1
      [] text = "2" -> 2
      [] text = "3" -> 3
      [] OTHER -> NaN

parseFloat(text) ==
    CASE text = "-6" -> 0 - 6
      [] text = "0" -> 0
      [] text = "6" -> 6
      [] text = "18" -> 18
      [] OTHER -> NaN

\* The products table: cost and selling price by product, and the stock at the start.
ProductIds == {"p1", "p2", "p3"}

MaxStock == 2

MaxBills == 1

InitialStock ==
    [id \in ProductIds |-> IF id = "p1" THEN MaxStock ELSE IF id = "p2" THEN 1 ELSE 0]

\* A row of products as a search returns it from the backend d.
Product(d, id) ==
    [id |-> id, price |-> 6, selling_price |-> 12, product_quantity |-> d.stock[id]]

NoJob == [pc |-> "idle", cart |-> <<>>, k |-> 0, before |-> <<>>]

InitCart ==
    /\ cartItems = <<>>
    /\ customerName = ""
    /\ vehicleInfo = ""
    /\ db = [bills |-> 0, items |-> 0, stock |-> InitialStock]
    /\ job = NoJob

\* Array.prototype.find on the cart: the index of the line of product id, 0 when none.
find(items, id) ==
    IF \E i \in 1..Len(items) : items[i].id = id
    THEN CHOOSE i \in 1..Len(items) : items[i].id = id /\ \A j \in 1..(i - 1) : items[j].id # id
    ELSE 0

\* The user edits the cart while no bill is being written, until MaxBills bills are.
Editing == job.pc = "idle" /\ db.bills < MaxBills

\* The step of the sales page: its state and the toasts it shows.
CartBecomesWith(e, items, name, vehicle, d, j, toasts) ==
    /\ cartItems' = items
    /\ customerName' = name
    /\ vehicleInfo' = vehicle
    /\ db' = d
    /\ job' = j
    /\ effects' = toasts
    /\ lastEvent' = e
    /\ UNCHANGED voiceVars
    /\ UNCHANGED dialog

\* A step that leaves the vehicle information as it is.
CartBecomes(e, items, name, d, j, toasts) ==
    CartBecomesWith(e, items, name, vehicleInfo, d, j, toasts)

\* The events of the page: the handler that ran, or the table whose request was answered.
CartEvent(kind) == Event(kind, None, <<>>, <<>>)

Toast(op, text) == Fx(op, text, <<>>, 0)

\* The line a product adds to the cart, lines 119-125.
NewLine(product) ==
    [id |-> product.id, product_quantity |-> product.product_quantity,
     quantity |-> 1, sellPrice |-> product.selling_price,
     originalPrice |-> product.price,
     profit |-> product.selling_price - product.price]

\* The functional update of addToCart adding a line whether or not the cart has one
\* of the product.
addedToCartAppends(prevItems, product) == Append(prevItems, NewLine(product))

\* The line of a product added once more, lines 110-115.
OneMore(item) ==
    [item EXCEPT !.quantity = Add(@, 1),
                 !.sellPrice = Div(Mul(Add(item.quantity, 1), @), item.quantity),
                 !.profit = Sub(Div(Mul(Add(item.quantity, 1), item.sellPrice), item.quantity),
                                Mul(Add(item.quantity, 1), item.originalPrice))]

\* The functional update of addToCart, lines 99-127.
addedToCart(prevItems, product) ==
    LET i == find(prevItems, product.id)
    IN  IF i # 0
        THEN IF Ge(prevItems[i].quantity, product.product_quantity) THEN prevItems
             ELSE [j \in 1..Len(prevItems) |->
                      IF prevItems[j].id = product.id THEN OneMore(prevItems[j])
                      ELSE prevItems[j]]
        ELSE Append(prevItems, NewLine(product))

\* addToCart, lines 93-134: a click on a row of the search results.
addToCart ==
    /\ Editing
    /\ \E id \in ProductIds :
        LET product == Product(db, id)
            i == find(cartItems, id)
        IN  IF Le(product.product_quantity, 0)
            THEN CartBecomes(CartEvent("addToCart"), cartItems, customerName, db, job,
                             <<Toast("toast.error", "out of stock")>>)
            ELSE CartBecomes(CartEvent("addToCart"), addedToCart(cartItems, product),
                             customerName, db, job,
                             IF i # 0 /\ Ge(cartItems[i].quantity, product.product_quantity)
                             THEN <<Toast("toast.error", "Only units available"),
                                    Toast("toast.success", "added to cart")>>
                             ELSE <<Toast("toast.success", "added to cart")>>)

\* Array.prototype.filter(item => item.id !== id), line 137.
RECURSIVE filter(_, _)
filter(items, id) ==
    IF items = <<>> THEN <<>>
    ELSE IF Head(items).id # id THEN <<Head(items)>> \o filter(Tail(items), id)
    ELSE filter(Tail(items), id)

\* removeFromCart, lines 136-138, called with the id of a line of the cart (line 372).
removeFromCart ==
    /\ Editing
    /\ \E i \in 1..Len(cartItems) :
        CartBecomes(CartEvent("removeFromCart"), filter(cartItems, cartItems[i].id),
                    customerName, db, job, <<>>)

\* updateQuantity, lines 140-163, called with parseInt of the quantity field (line 388).
updateQuantity ==
    /\ Editing
    /\ \E i \in 1..Len(cartItems), text \in QuantityTexts :
        LET quantity == parseInt(text)
            item == cartItems[i]
            e == CartEvent("updateQuantity")
        IN  IF Lt(quantity, 1) THEN CartBecomes(e, cartItems, customerName, db, job, <<>>)
            ELSE IF Gt(quantity, item.product_quantity)
            THEN CartBecomes(e, cartItems, customerName, db, job,
                             <<Toast("toast.error", "Only units available")>>)
            ELSE CartBecomes(e,
                    [cartItems EXCEPT ![i] =
                        [@ EXCEPT !.quantity = quantity,
                                  !.sellPrice = Mul(quantity, Div(item.sellPrice, item.quantity)),
                                  !.profit = Sub(Mul(quantity, Div(item.sellPrice, item.quantity)),
                                                 Mul(quantity, item.originalPrice))]],
                    customerName, db, job, <<>>)

\* updatePrice, lines 165-179, called with parseFloat of the price field (line 400).
updatePrice ==
    /\ Editing
    /\ \E i \in 1..Len(cartItems), text \in PriceTexts :
        LET newPrice == parseFloat(text)
            item == cartItems[i]
            e == CartEvent("updatePrice")
        IN  IF Lt(newPrice, 0) THEN CartBecomes(e, cartItems, customerName, db, job, <<>>)
            ELSE CartBecomes(e,
                    [cartItems EXCEPT ![i] =
                        [@ EXCEPT !.sellPrice = newPrice,
                                  !.profit = Sub(newPrice, Mul(item.quantity, item.originalPrice))]],
                    customerName, db, job, <<>>)

\* calculateTotal and calculateTotalProfit, lines 181-187.
RECURSIVE reduce(_, _, _)
reduce(items, field, sum) ==
    IF items = <<>> THEN sum
    ELSE reduce(Tail(items), field,
                Add(sum, IF field = "sellPrice" THEN Head(items).sellPrice ELSE Head(items).profit))

calculateTotal == reduce(cartItems, "sellPrice", 0)

calculateTotalProfit == reduce(cartItems, "profit", 0)

\* The customer name field, line 278.
setCustomerName ==
    \E name \in {"", "Raj"} :
        /\ Editing
        /\ name # customerName
        /\ CartBecomes(CartEvent("setCustomerName"), cartItems, name, db, job, <<>>)

\* The vehicle information field, line 288.
setVehicleInfo ==
    \E vehicle \in {"", "Activa"} :
        /\ Editing
        /\ vehicle # vehicleInfo
        /\ CartBecomesWith(CartEvent("setVehicleInfo"), cartItems, customerName, vehicle,
                           db, job, <<>>)

\* handleGenerateBill without the two checks of lines 190-198.
handleGenerateBillUnchecked ==
    /\ job.pc = "idle"
    /\ db.bills < MaxBills
    /\ CartBecomes(CartEvent("handleGenerateBill"), cartItems, customerName, db,
                   [pc |-> "bills", cart |-> cartItems, k |-> 0, before |-> db], <<>>)

\* handleGenerateBill up to its first await, lines 189-213.  before: the backend as
\* the call found it.
handleGenerateBill ==
    /\ job.pc = "idle"
    /\ db.bills < MaxBills
    /\ LET e == CartEvent("handleGenerateBill")
       IN  IF customerName = ""
           THEN CartBecomes(e, cartItems, customerName, db, job,
                            <<Toast("toast.error", "Please enter a customer name")>>)
           ELSE IF Len(cartItems) = 0
           THEN CartBecomes(e, cartItems, customerName, db, job,
                            <<Toast("toast.error", "Please add products to the cart")>>)
           ELSE CartBecomes(e, cartItems, customerName, db,
                            [pc |-> "bills", cart |-> cartItems, k |-> 0, before |-> db], <<>>)

\* A catch block that empties the form as the success path does.
generateBillFailedClears(e) ==
    CartBecomesWith(e, <<>>, "", "", db, NoJob,
                    <<Toast("toast.error", "Failed to generate bill")>>)

\* The catch block, lines 250-253.
generateBillFailed(e) ==
    CartBecomes(e, cartItems, customerName, db, NoJob,
                <<Toast("toast.error", "Failed to generate bill")>>)

\* The insert into bills answers, lines 204-215.
BillInserted ==
    /\ job.pc = "bills"
    /\ \E ok \in BOOLEAN :
          IF ok
          THEN CartBecomes(CartEvent("bills"), cartItems, customerName,
                           [db EXCEPT !.bills = @ + 1], [job EXCEPT !.pc = "bill_items"], <<>>)
          ELSE generateBillFailed(CartEvent("bills"))

\* The insert into bill_items answers, lines 226-230.
ItemsInserted ==
    /\ job.pc = "bill_items"
    /\ \E ok \in BOOLEAN :
          IF ok
          THEN CartBecomes(CartEvent("bill_items"), cartItems, customerName,
                           [db EXCEPT !.items = @ + 1],
                           [job EXCEPT !.pc = "products", !.k = 1], <<>>)
          ELSE generateBillFailed(CartEvent("bill_items"))

\* One update of products answers, lines 232-241; after the last, lines 243-248.
StockUpdated ==
    /\ job.pc = "products"
    /\ \E ok \in BOOLEAN :
          LET item == job.cart[job.k]
              d == [db EXCEPT !.stock[item.id] = Sub(item.product_quantity, item.quantity)]
          IN  IF ~ok THEN generateBillFailed(CartEvent("products"))
              ELSE IF job.k < Len(job.cart)
              THEN CartBecomes(CartEvent("products"), cartItems, customerName,
                               d, [job EXCEPT !.k = @ + 1], <<>>)
              ELSE CartBecomesWith(CartEvent("products"), <<>>, "", "", d, NoJob,
                                   <<Toast("toast.success", "Bill generated successfully")>>)

(***************************************************************************)
(* The sale-details wizard (SaleDetailsDialog) on the home page.           *)
(***************************************************************************)
\* useState of lines 23-29, and what handleSave resets the details to, lines 67-73.
DefaultDetails ==
    [customerName |-> "", vehicleInfo |-> "", productName |-> "", quantity |-> 1, price |-> 0]

\* The wizard as it is mounted, lines 23-32, the home page not showing it (Index.tsx
\* line 150).  saving: the details of the handleSave call that is waiting, if one is.
InitDialog ==
    dialog = [details |-> DefaultDetails, step |-> 1, isSaving |-> FALSE, isOpen |-> FALSE,
              saving |-> <<>>]

\* A step of the wizard: its state, and the toasts and callbacks of the step.
DialogBecomes(e, d, fx) ==
    /\ dialog' = d
    /\ effects' = fx
    /\ lastEvent' = e
    /\ UNCHANGED voiceVars
    /\ UNCHANGED cartVars

\* The home page opens the dialog, Index.tsx line 170.
OpenDialog ==
    /\ ~dialog.isOpen
    /\ DialogBecomes(CartEvent("open"), [dialog EXCEPT !.isOpen = TRUE], <<>>)

\* onClose from the X button (line 94) or from Cancel (line 216), shown at step 1.
CloseDialog ==
    /\ dialog.isOpen
    /\ DialogBecomes(CartEvent("onClose"), [dialog EXCEPT !.isOpen = FALSE], <<>>)

\* parseInt(e.target.value) || 1 and parseFloat(e.target.value) || 0, lines 147, 159.
OrElse(x, default) == IF x = NaN \/ x = 0 THEN default ELSE x

\* updateField, lines 34-36, from the inputs the current step shows (lines 100-163).
updateField ==
    /\ dialog.isOpen
    /\ \/ /\ dialog.step = 1
          /\ \/ \E value \in {"", "Raj"} :
                   DialogBecomes(CartEvent("updateField"),
                                 [dialog EXCEPT !.details.customerName = value], <<>>)
             \/ \E value \in {"", "Activa"} :
                   DialogBecomes(CartEvent("updateField"),
                                 [dialog EXCEPT !.details.vehicleInfo = value], <<>>)
       \/ /\ dialog.step = 2
          /\ \/ \E value \in {"", "brake pad"} :
                   DialogBecomes(CartEvent("updateField"),
                                 [dialog EXCEPT !.details.productName = value], <<>>)
             \/ \E text \in QuantityTexts :
                   DialogBecomes(CartEvent("updateField"),
                                 [dialog EXCEPT !.details.quantity = OrElse(parseInt(text), 1)],
                                 <<>>)
             \/ \E text \in PriceTexts :
                   DialogBecomes(CartEvent("updateField"),
                                 [dialog EXCEPT !.details.price = OrElse(parseFloat(text), 0)],
                                 <<>>)

\* The Back button, lines 211-214.
Back ==
    /\ dialog.isOpen
    /\ dialog.step > 1
    /\ DialogBecomes(CartEvent("Back"), [dialog EXCEPT !.step = @ - 1], <<>>)

\* handleSave up to its await, lines 56-61: the details it will pass are those of the
\* render whose button was clicked.
handleSave(d) == [d EXCEPT !.isSaving = TRUE, !.saving = <<d.details>>]

\* handleNext without the two checks of lines 39-47.
handleNextUnchecked ==
    /\ dialog.isOpen
    /\ ~dialog.isSaving
    /\ DialogBecomes(CartEvent("handleNext"),
                     IF dialog.step < 3 THEN [dialog EXCEPT !.step = @ + 1]
                     ELSE handleSave(dialog), <<>>)

\* handleNext, lines 38-54: the Next / Save Sale button, disabled while saving (line 223).
handleNext ==
    /\ dialog.isOpen
    /\ ~dialog.isSaving
    /\ LET e == CartEvent("handleNext")
       IN  IF dialog.step = 1 /\ dialog.details.customerName = ""
           THEN DialogBecomes(e, dialog, <<Toast("toast.error", "Please enter customer name")>>)
           ELSE IF dialog.step = 2 /\ dialog.details.productName = ""
           THEN DialogBecomes(e, dialog, <<Toast("toast.error", "Please enter product name")>>)
           ELSE IF dialog.step < 3
           THEN DialogBecomes(e, [dialog EXCEPT !.step = @ + 1], <<>>)
           ELSE DialogBecomes(e, handleSave(dialog), <<>>)

\* handleSave after its await, lines 63-79: onSave with the details of the click, the
\* reset, onClose.  The effect records the two names passed and the step shown when
\* onSave is called.
Saved ==
    /\ dialog.saving # <<>>
    /\ DialogBecomes(CartEvent("handleSave"),
                     [details |-> DefaultDetails, step |-> 1, isSaving |-> FALSE,
                      isOpen |-> FALSE, saving |-> <<>>],
                     <<Fx("onSave", "", <<dialog.saving[1].customerName,
                                         dialog.saving[1].productName>>, dialog.step),
                       Toast("toast.success", "Sale details saved successfully!")>>)

NoEvent == Event("init", None, <<>>, <<>>)

Init ==
    /\ hasRecognitionSupport \in BOOLEAN
    /\ engine = "off"
    /\ isListening = FALSE
    /\ transcript = <<>>
    /\ assistantActive = FALSE
    /\ urlAssistant = FALSE
    /\ searchResults = <<>>
    /\ searchPending = FALSE
    /\ activeField = None
    /\ conversationStep = 0
    /\ assistantMessage = Msg("How can I help you?", <<>>)
    /\ processingCommand = FALSE
    /\ isThinking = FALSE
    /\ utterances = 0
    /\ timers = <<>>
    /\ effects = <<>>
    /\ lastEvent = NoEvent
    /\ clicks = 0
    /\ generated = 0
    /\ retries = NoRetries
    /\ orphans = 0
    /\ InitCart
    /\ InitDialog


\* What the user says in the model's conversations, by the field the assistant
\* shows as active: an answer to the question asked, a trigger phrase, and in the
\* fields that can reject an input one that they reject.
Utterances(field) ==
    CASE field = None -> { <<"create", "a", "sell", "bill">>, <<"Honda", "Activa", "2020">> }
      [] field = "customer_name" -> { <<"my", "name", "is", "Raj">>, <<"create", "a", "sell", "bill">> }
      [] field = "vehicle_info" -> { <<"Honda", "Activa", "2020">> }
      [] field = "product_search" -> { <<"find", "brake", "pad">> }
      [] field = "add_product" -> { <<"Second">>, <<"Honda", "Activa", "2020">> }
      [] field = "confirm_bill" -> { <<"yes">>, <<"no">>, <<"Honda", "Activa", "2020">> }

(***************************************************************************)
(* The host page (Index.tsx) and the user.                                 *)
(***************************************************************************)
\* handleActivateAssistant, lines 36-45: the click on "Ask Assistant".
HandleActivateAssistant ==
    /\ ~assistantActive
    /\ clicks < MaxClicks
    /\ LET s1 == [Clicked(Event("click activate", None, <<>>, <<>>)) EXCEPT !.assistantActive = TRUE]
       IN  Commit(setTimeout(s1, Timer("activate", ActivateDelay, None, <<>>, <<>>)), TRUE)

\* handleCloseAssistant, lines 47-51: the click on the assistant's close button.
HandleCloseAssistant ==
    /\ assistantActive
    /\ clicks < MaxClicks
    /\ LET s1 == stopListening(Clicked(Event("click close", None, <<>>, <<>>)))
           s2 == resetTranscript(s1)
       IN  Commit([s2 EXCEPT !.assistantActive = FALSE], TRUE)

\* The microphone button, lines 358-360: isListening ? stopListening : startListening.
MicButton ==
    /\ assistantActive
    /\ clicks < MaxClicks
    /\ hasRecognitionSupport
    /\ LET s == Clicked(Event("click mic", None, <<>>, <<>>))
       IN  Commit(IF isListening THEN stopListening(s) ELSE startListening(s), TRUE)

(***************************************************************************)
(* The recognizer and the catalog.                                         *)
(***************************************************************************)
\* recognitionInstance.onresult, hook lines 31-35, and the transcript effect it
\* triggers.  The recognizer runs with interimResults = true (line 28), so the result
\* reported is an interim or a final one; the handler does not look at the flag.
onresult(s, event) == [s EXCEPT !.transcript = event.input]

Hear(u) ==
    \E final \in BOOLEAN :
        /\ engine = "on"
        /\ u # transcript
        /\ Commit(onresult(Begin([Event("result", None, u, <<>>) EXCEPT !.isFinal = final]),
                           [input |-> u, isFinal |-> final]), TRUE)

OnResult == \E u \in Utterances(activeField) : Hear(u)

\* The catalog search delivers the rows of the latest request into searchResults.
DeliverResults ==
    \E count \in 0..MaxResults :
        /\ searchPending
        /\ Commit([Begin(Event("results", None, <<>>, <<>>)) EXCEPT
                      !.searchResults = Results("latest", count), !.searchPending = FALSE], TRUE)

\* The synthesizer finishes the utterance it is speaking.
OnSpeechEnd ==
    /\ utterances > 0
    /\ Commit([Begin(Event("end", None, <<>>, <<>>)) EXCEPT !.utterances = @ - 1], FALSE)

\* The recognizer ends by itself (silence, a lost connection): onend runs.
OnEnd ==
    /\ engine = "on"
    /\ Commit(onend([Begin(Event("engine_end", None, <<>>, <<>>)) EXCEPT !.engine = "off"]),
              FALSE)

\* The recognizer reports an error (no-speech, network, not-allowed): onerror runs,
\* then the recognizer ends and onend runs.
OnError ==
    /\ engine = "on"
    /\ Commit(onend([onerror(Begin(Event("engine_error", None, <<>>, <<>>)))
                        EXCEPT !.engine = "off"]), FALSE)

(***************************************************************************)
(* Time and timers.                                                        *)
(***************************************************************************)
Delay(kind) ==
    CASE kind = "activate" -> ActivateDelay
      [] kind = "process" -> ProcessDelay
      [] kind = "autostart" -> AutoStartDelay
      [] kind = "search" -> SearchDelay
      [] kind = "message" -> MessageResetDelay
      [] kind = "navigate" -> NavigateDelay

Tick ==
    /\ timers # <<>>
    /\ \A i \in 1..Len(timers) : timers[i].left > 0
    /\ Commit([Begin(Event("tick", None, <<>>, <<>>)) EXCEPT
                  !.timers = [i \in 1..Len(timers) |-> [timers[i] EXCEPT !.left = @ - 1]]], FALSE)

\* Timer i is due, and no timer set before it with a delay no longer than its own
\* is still pending.
Due(i, kind) ==
    /\ i \in 1..Len(timers)
    /\ timers[i].kind = kind
    /\ timers[i].left = 0
    /\ \A j \in 1..(i - 1) : ~(timers[j].left = 0 /\ Delay(timers[j].kind) <= Delay(kind))

Without(i) == [j \in 1..(Len(timers) - 1) |-> IF j < i THEN timers[j] ELSE timers[j + 1]]

Fired(i) ==
    [Begin([Event(timers[i].kind, timers[i].af, timers[i].input, timers[i].results)
               EXCEPT !.pos = i])
        EXCEPT !.timers = Without(i)]

\* The activation timer saying nothing when recognition is not supported.
FireActivateSilent ==
    \E i \in 1..Len(timers) :
        /\ Due(i, "activate")
        /\ Commit(IF hasRecognitionSupport THEN startListening(Fired(i)) ELSE Fired(i), FALSE)

\* Index.tsx lines 38-44.
FireActivate ==
    \E i \in 1..Len(timers) :
        /\ Due(i, "activate")
        /\ Commit(IF hasRecognitionSupport THEN startListening(Fired(i))
                  ELSE Emit(Fired(i), Fx("toast.error", "Speech recognition is not supported in your browser", <<>>, 0)),
                  FALSE)

\* VoiceAssistant.tsx lines 147-167.
FireProcess ==
    \E i \in 1..Len(timers) :
        /\ Due(i, "process")
        /\ Commit(processInput(Fired(i), timers[i]), FALSE)

\* VoiceAssistant.tsx lines 212-224.
FireSearch ==
    \E i \in 1..Len(timers) :
        /\ Due(i, "search")
        /\ Commit(searchResultsAvailable(Fired(i), timers[i].results), FALSE)

\* VoiceAssistant.tsx lines 322-324.
FireAutoStart ==
    \E i \in 1..Len(timers) :
        /\ Due(i, "autostart")
        /\ Commit(startConversationFlow(Fired(i)), FALSE)

\* VoiceAssistant.tsx lines 306-308.
FireMessageReset ==
    \E i \in 1..Len(timers) :
        /\ Due(i, "message")
        /\ Commit(setAssistantMessage(Fired(i), Msg("How can I help you?", <<>>)), FALSE)

\* The closure of a timer whose component has been unmounted: its state setters do
\* nothing any more.
Unmounted == "unmounted"

\* No timer is cleared on unmount.  The navigation timers of the page that is left
\* still fire; its other timers reach only the state of the unmounted page.
RECURSIVE Orphaned(_)
Orphaned(ts) ==
    IF ts = <<>> THEN <<>>
    ELSE IF Head(ts).kind = "navigate"
    THEN <<[Head(ts) EXCEPT !.af = Unmounted]>> \o Orphaned(Tail(ts))
    ELSE Orphaned(Tail(ts))

\* The sales page after navigate("/sell-products?assistant=true"): the page that
\* is left unmounts and the sales page mounts the assistant, open, with fresh state.
salesPage(s) ==
    [s EXCEPT !.engine = "off", !.isListening = FALSE, !.transcript = <<>>,
              !.assistantActive = TRUE, !.urlAssistant = TRUE, !.searchResults = <<>>,
              !.searchPending = FALSE,
              !.activeField = None, !.conversationStep = 0,
              !.assistantMessage = Msg("How can I help you?", <<>>),
              !.processingCommand = FALSE, !.isThinking = FALSE, !.utterances = 0,
              !.timers = Orphaned(@)]

\* VoiceAssistant.tsx lines 126-129.  From the home page the navigation mounts the
\* sales page; on the sales page it leads to the page that is shown already.
FireNavigate ==
    \E i \in 1..Len(timers) :
        /\ Due(i, "navigate")
        /\ LET s1 == Emit(Fired(i), Fx("navigate", "/sell-products?assistant=true", <<>>, 0))
           IN  IF timers[i].af = Unmounted THEN Commit(s1, FALSE)
               ELSE IF urlAssistant THEN Commit([s1 EXCEPT !.processingCommand = FALSE], FALSE)
               ELSE LET s2 == salesPage(s1)
                    IN  CommitFrom([s2 EXCEPT !.assistantActive = FALSE], s2, TRUE)

Next ==
    \/ HandleActivateAssistant
    \/ HandleCloseAssistant
    \/ MicButton
    \/ OnResult
    \/ DeliverResults
    \/ Tick
    \/ FireActivate
    \/ FireProcess
    \/ FireSearch
    \/ FireAutoStart
    \/ FireMessageReset
    \/ FireNavigate
    \/ OnSpeechEnd

Spec == Init /\ [][Next]_vars


(***************************************************************************)
(* One utterance of any wording, heard in any field: the specification the *)
(* claims about what a handler does with its input are checked under.      *)
(***************************************************************************)
\* The words an utterance is made of, by the field that hears it.
InputWords(field) ==
    CASE field = None ->
            {"create", "a", "sell", "resell", "bill", "Bill", "bills", "banao", "product",
             "products", "hello"}
      [] field = "customer_name" ->
            {"my", "name", "is", "customer", "the", "this", "Raj", "John", "sell", "bill"}
      [] field = "vehicle_info" -> {"vehicle", "is", "info", "information", "the", "its", "Honda"}
      [] field = "product_search" -> {"find", "search", "look", "for", "product", "name", "is", "brake", "pad"}
      [] field = "add_product" ->
            {"first", "1st", "one", "second", "2nd", "two", "third", "3rd", "three", "fourth",
             "4th", "four", "fifth", "5th", "five", "0", "1", "2", "3", "4", "5", "6", "21st",
             "the", "Second"}
      [] field = "confirm_bill" ->
            {"yes", "yeah", "yep", "sure", "ok", "okay", "of", "course", "certainly", "add",
             "more", "no", "nope", "done", "finish", "complete", "generate", "create", "bill",
             "hello", "No"}

\* Longer utterances: a filler phrase before the answer, and two fillers in a row.
Phrases(field) ==
    CASE field = "customer_name" ->
            { <<"my", "name", "is", "John">>, <<"customer", "name", "Raj">> }
      [] field = "vehicle_info" -> { <<"vehicle", "info", "Honda">> }
      [] field = "product_search" -> { <<"find", "product", "Brake", "pad">> }
      [] OTHER -> {}

Transcripts(field) ==
    UNION {[1..n -> InputWords(field)] : n \in 1..MaxWords} \cup Phrases(field)

\* The step number and the prompt the controller has when it listens in a field.
StepOf(field) ==
    CASE field = None -> 0
      [] field = "customer_name" -> 1
      [] field = "vehicle_info" -> 2
      [] field \in {"product_search", "add_product"} -> 3
      [] field = "confirm_bill" -> 4

PromptOf(field) ==
    CASE field = None -> Msg("Listening...", <<>>)
      [] field = "customer_name" -> Msg("What is the customer's name?", <<>>)
      [] field = "vehicle_info" -> Msg("Customer name set to {}. What is the vehicle information?", <<"raj">>)
      [] field = "product_search" -> Msg("What product would you like to add next?", <<>>)
      [] field = "add_product" -> Msg("I found some products. Which one would you like to add?", <<>>)
      [] field = "confirm_bill" -> Msg("Added {} to the cart. Would you like to add another product?", <<"brake pad">>)

\* The assistant listens: idle on the home page, or in some field on the sales page.
InitInput ==
    /\ hasRecognitionSupport = TRUE
    /\ engine = "on"
    /\ isListening = TRUE
    /\ transcript = <<>>
    /\ assistantActive = TRUE
    /\ activeField \in FormField \cup {None}
    /\ urlAssistant = (activeField # None)
    /\ searchResults \in
          IF activeField \in {"product_search", "add_product"}
          THEN {Results("latest", n) : n \in 0..SearchLimit}
          ELSE {<<>>}
    /\ searchPending = FALSE
    /\ conversationStep = StepOf(activeField)
    /\ assistantMessage = PromptOf(activeField)
    /\ processingCommand = FALSE
    /\ isThinking = FALSE
    /\ utterances \in {0, 1}
    /\ timers = <<>>
    /\ effects = <<>>
    /\ lastEvent = NoEvent
    /\ clicks = 1
    /\ generated = 0
    /\ retries = NoRetries
    /\ orphans = 0
    /\ InitCart
    /\ InitDialog

\* The first thing the user says.
HearAny ==
    /\ lastEvent.kind = "init"
    /\ \E u \in Transcripts(activeField) : Hear(u)

NextInput ==
    \/ HearAny
    \/ Tick
    \/ FireProcess
    \/ FireSearch
    \/ FireAutoStart
    \/ FireMessageReset
    \/ FireNavigate
    \/ OnSpeechEnd
    \/ OnEnd
    \/ OnError

SpecInput == InitInput /\ [][NextInput]_vars

\* The same with the browser's event loop at work: time passes, and a timer that is
\* due runs its callback.
TimerStep ==
    \/ Tick
    \/ FireProcess
    \/ FireSearch
    \/ FireAutoStart
    \/ FireMessageReset
    \/ FireNavigate

\* A timer step is possible exactly when a timer is pending: time passes while none
\* is due, and the callback of a due timer runs.
TimerPending == timers # <<>>

\* Weak fairness of the timer steps, WF_vars(TimerStep), with the enabling condition
\* written out.
TimersRun == []<>(~TimerPending) \/ []<><<TimerStep>>_vars

SpecInputFair == InitInput /\ [][NextInput]_vars /\ TimersRun

(***************************************************************************)
(* The sales page used by hand: the cart, and the bill written to the      *)
(* backend.                                                                *)
(***************************************************************************)
NextCart ==
    \/ addToCart
    \/ removeFromCart
    \/ updateQuantity
    \/ updatePrice
    \/ setCustomerName
    \/ setVehicleInfo
    \/ handleGenerateBill
    \/ BillInserted
    \/ ItemsInserted
    \/ StockUpdated

\* The page as it is opened, with nothing in the cart and the assistant not in use.
InitSales == Init /\ hasRecognitionSupport

SpecCart == InitSales /\ [][NextCart]_vars

(***************************************************************************)
(* The home page with the sale-details wizard used by hand.                *)
(***************************************************************************)
NextDialog ==
    \/ OpenDialog
    \/ CloseDialog
    \/ updateField
    \/ Back
    \/ handleNext
    \/ Saved

SpecDialog == Init /\ [][NextDialog]_vars

(***************************************************************************)
(* Properties.                                                             *)
(***************************************************************************)
Emitted(op) == Calls(effects, op) # {}

GenerateBillEmitted ==
    \E i \in Calls(effects, "onCommand") : effects[i].text = "generate_bill"

ProcessTimers == {i \in 1..Len(timers) : timers[i].kind = "process"}

\* The step is the processing of an utterance heard in field, with the controller
\* in that field.
Handles(field) ==
    /\ activeField = field
    /\ lastEvent'.kind = "process"
    /\ lastEvent'.af = field

\* The keywords as the specification lists them.
TerminalWords ==
    { <<"no">>, <<"nope">>, <<"done">>, <<"finish">>, <<"complete">>, <<"generate">>,
      <<"create", "bill">> }

AffirmativeWords ==
    { <<"yes">>, <<"yeah">>, <<"yep">>, <<"sure">>, <<"ok">>, <<"okay">>, <<"of", "course">>,
      <<"certainly">>, <<"add">>, <<"more">> }

Terminated == activeField = None /\ conversationStep = 0 /\ GenerateBillEmitted

\* A clarifying prompt: a message shown and spoken, neither empty.
Clarified ==
    /\ assistantMessage.text # ""
    /\ \E i \in Calls(effects, "speak") : effects[i].text # ""

\* The words that name the k-th result.
Names(k) ==
    CASE k = 1 -> {"first", "1st", "one", "1"}
      [] k = 2 -> {"second", "2nd", "two", "2"}
      [] k = 3 -> {"third", "3rd", "three", "3"}
      [] k = 4 -> {"fourth", "4th", "four", "4"}
      [] k = 5 -> {"fifth", "5th", "five", "5"}
      [] k = 6 -> {"6"}

\* The input names the k-th result and nothing else.
SaysOnly(input, k) ==
    /\ \E i \in 1..Len(input) : input[i] \in Names(k)
    /\ \A i \in 1..Len(input) : input[i] \in Names(k) \cup {"the"}

\* C1: in every reachable state conversationStep is 0 exactly when activeField is null.
StepZeroIffNoField == (conversationStep = 0) <=> (activeField = None)

\* C2, as stated: in confirm_bill every transcript with a terminal keyword, whatever
\* else it contains, resets the step to 0 and the field to null and emits generate_bill.
TerminalKeywordAlwaysGenerates ==
    [][(Handles("confirm_bill") /\ MatchesAny(TerminalWords, lastEvent'.input))
        => Terminated']_vars

\* C2, amended: in confirm_bill a transcript with a terminal keyword and no affirmative
\* keyword resets the step to 0 and the field to null and emits generate_bill.
TerminalKeywordAloneGenerates ==
    [][(/\ Handles("confirm_bill")
        /\ MatchesAny(TerminalWords, lastEvent'.input)
        /\ ~MatchesAny(AffirmativeWords, lastEvent'.input))
        => Terminated']_vars

TerminalAnswerHandled ==
    /\ lastEvent.kind = "process"
    /\ lastEvent.af = "confirm_bill"
    /\ lastEvent.input = <<"done", "hello">>
    /\ Terminated

\* C3: in confirm_bill every transcript with an affirmative keyword moves the
\* controller to product_search, step 3, and emits no generate_bill.
AffirmativeKeywordSearchesAgain ==
    [][(Handles("confirm_bill") /\ MatchesAny(AffirmativeWords, lastEvent'.input))
        => /\ activeField' = "product_search"
           /\ conversationStep' = 3
           /\ ~GenerateBillEmitted']_vars

AffirmativeAnswerHandled ==
    /\ lastEvent.kind = "process"
    /\ lastEvent.af = "confirm_bill"
    /\ lastEvent.input = <<"no", "more">>
    /\ activeField = "product_search"
    /\ conversationStep = 3
    /\ isListening

\* C4: a conversation selects the second of two results and its terminal confirmation
\* emits generate_bill once; generate_bill is not emitted a second time before the
\* flow is started again.
GenerateBillOnce == generated <= 1

\* C5: closing the session stops listening and resets the conversation to idle.
CloseResetsConversation ==
    lastEvent.kind = "click close" => ~isListening /\ activeField = None /\ conversationStep = 0

\* C6: a continuation that was pending when the session was closed and fires while it
\* is closed does nothing: no prompt, no callback, no field change, no listening.
ContinuationKinds == {"process", "search", "navigate", "autostart"}

NoContinuationAfterClose ==
    [][(/\ ~assistantActive
        /\ lastEvent'.kind \in ContinuationKinds
        /\ lastEvent'.pos \in 1..orphans)
        => /\ effects' = <<>>
           /\ UNCHANGED <<activeField, conversationStep, assistantMessage, isListening>>]_vars

\* C7: while an utterance is being processed no second utterance is dispatched: at most
\* one processing continuation is pending.
OneUtteranceInProcess == Cardinality(ProcessTimers) <= 1

\* C8: an input the field does not recognize leaves activeField and conversationStep
\* as they are, calls neither onProductSelect nor onCommand, and is answered with a
\* non-empty prompt.
UnrecognizedInputKeepsState ==
    [][(/\ lastEvent'.kind = "process"
        /\ lastEvent'.af = activeField
        /\ Rejected(lastEvent'.af, lastEvent'.input, lastEvent'.results))
        => /\ UNCHANGED <<activeField, conversationStep>>
           /\ ~Emitted("onProductSelect")'
           /\ ~Emitted("onCommand")'
           /\ Clarified']_vars

OutOfRangeAnswered ==
    /\ lastEvent.kind = "process"
    /\ lastEvent.af = "add_product"
    /\ lastEvent.input = <<"third">>
    /\ Len(lastEvent.results) = 2
    /\ activeField = "add_product"
    /\ conversationStep = 3
    /\ Clarified
    /\ isListening

\* C9: however many inputs in a row add_product or confirm_bill has rejected, the
\* controller is still in that field and has emitted no generate_bill.
RetryKeepsField ==
    retries.count > 0 =>
        /\ retries.field \in {"add_product", "confirm_bill"}
        /\ activeField = retries.field
        /\ (lastEvent.kind = "process" => ~Emitted("onCommand"))

RetriedToTheBound ==
    /\ retries.count = MaxRetries
    /\ retries.field = "confirm_bill"
    /\ lastEvent.kind = "process"
    /\ isListening

\* C10: in add_product a word naming the k-th result selects index k - 1 when the
\* list has at least k results, and is rejected with the state unchanged when it has
\* fewer.
OrdinalParsing ==
    [][\A k \in 1..(SearchLimit + 1) :
        (Handles("add_product") /\ SaysOnly(lastEvent'.input, k))
        => IF k <= Len(lastEvent'.results)
           THEN /\ \E i \in Calls(effects', "onProductSelect") : effects'[i].num = k - 1
                /\ activeField' = "confirm_bill"
                /\ conversationStep' = 4
           ELSE /\ ~Emitted("onProductSelect")'
                /\ UNCHANGED <<activeField, conversationStep, searchResults>>]_vars

LastDigitSelected ==
    /\ lastEvent.kind = "process"
    /\ lastEvent.af = "add_product"
    /\ lastEvent.input = <<"the", "2">>
    /\ Len(lastEvent.results) = 2
    /\ \E i \in Calls(effects, "onProductSelect") : effects[i].num = 1
    /\ activeField = "confirm_bill"

\* C11: every onProductSelect(i) has 0 <= i < the number of search results held, and
\* add_product is left for confirm_bill only in a step that calls it exactly once.
SelectionWithinResults ==
    [][/\ \A i \in Calls(effects', "onProductSelect") :
             effects'[i].num \in 0..(Len(searchResults') - 1)
       /\ (activeField = "add_product" /\ activeField' = "confirm_bill")
             => Cardinality(Calls(effects', "onProductSelect")) = 1]_vars

\* The calls to the external collaborators: field update, search request, selection.
FieldCallbacks == {"onFieldUpdate", "onProductSearch", "onProductSelect"}

\* Each call of es to an operation of first comes before each call to one of then.
Before(es, first, then) ==
    \A i, j \in 1..Len(es) : (es[i].op \in first /\ es[j].op \in then) => i < j

\* The step dispatches an utterance to a field handler: a processing timer is added.
Dispatches ==
    /\ lastEvent'.kind = "result"
    /\ \E i \in 1..Len(timers') : i > Len(timers) /\ timers'[i].kind = "process"

\* The step is a forward transition: it makes a field active that was not.
ForwardTransition ==
    /\ lastEvent'.kind \in {"process", "search"}
    /\ activeField' \in FormField
    /\ activeField' # activeField

\* C12, as stated: a forward transition stops the transcript source, then speaks the
\* prompt, then invokes the external callback, then resumes the transcript source.
PromptBeforeCallback ==
    [][lastEvent'.kind = "process" =>
          /\ Before(effects', {"speak"}, FieldCallbacks)
          /\ Before(effects', FieldCallbacks, {"startListening"})]_vars

\* C12, amended: the transcript source is stopped when the utterance is dispatched;
\* the handler invokes the external callback, then shows and speaks the prompt, and
\* the source is resumed last; every forward transition gives a prompt and resumes.
CallbackBeforePrompt ==
    [][/\ Dispatches => Emitted("stopListening")'
       /\ lastEvent'.kind \in {"process", "search"} =>
             /\ ~Emitted("stopListening")'
             /\ Before(effects', FieldCallbacks, {"speak"})
             /\ Before(effects', {"speak"}, {"startListening"})
       /\ ForwardTransition =>
             /\ Emitted("speak")'
             /\ assistantMessage' # assistantMessage
             /\ Emitted("startListening")']_vars

NameTakenInOrder ==
    /\ lastEvent.kind = "process"
    /\ lastEvent.af = "customer_name"
    /\ activeField = "vehicle_info"
    /\ Len(effects) = 3
    /\ effects[1].op = "onFieldUpdate"
    /\ effects[2].op = "speak"
    /\ effects[3].op = "startListening"

\* C13: once generate_bill has been emitted the controller stays idle, activeField
\* null and step 0, and the terminal transition does not resume listening; only a
\* recognized trigger phrase (the navigation it schedules) starts the flow again.
TerminalStaysIdle ==
    [][/\ GenerateBillEmitted' => ~Emitted("startListening")'
       /\ (generated > 0 /\ activeField = None /\ lastEvent'.kind # "navigate")
             => (activeField' = None /\ conversationStep' = 0)]_vars

\* The forward transitions of the conversation.
ForwardPairs ==
    { <<None, "customer_name">>, <<"customer_name", "vehicle_info">>,
      <<"vehicle_info", "product_search">>, <<"product_search", "add_product">>,
      <<"add_product", "confirm_bill">> }

\* C14: conversationStep grows by exactly 1 on each forward transition, decreases only
\* on the loop-back from confirm_bill to product_search or to 0, and is 0 after the
\* terminal confirmation (that it is 0 after the session is closed is C5).
StepCountsTransitions ==
    [][/\ <<activeField, activeField'>> \in ForwardPairs
             => conversationStep' = conversationStep + 1
       /\ conversationStep' < conversationStep
             => \/ conversationStep' = 0
                \/ (activeField = "confirm_bill" /\ activeField' = "product_search")
       /\ GenerateBillEmitted' => conversationStep' = 0]_vars

\* The step is the decision taken 1.5 s after a search request whose results the
\* catalog has delivered.
DecidesAfterDelivery ==
    /\ lastEvent'.kind = "search"
    /\ activeField = "product_search"
    /\ ~searchPending

\* C15: when the results of the requested search are there, the controller enters
\* add_product if there is at least one and otherwise stays in product_search and
\* prompts again; in both cases it listens again.
SearchDecisionFollowsResults ==
    [][DecidesAfterDelivery =>
          /\ activeField' = (IF Len(searchResults) >= 1 THEN "add_product" ELSE "product_search")
          /\ Emitted("speak")'
          /\ isListening']_vars

\* C16: the list the decision reads is the list delivered for the query, not the list
\* held before the query was issued.
SearchDecisionReadsDelivered ==
    [][DecidesAfterDelivery => lastEvent'.results = searchResults]_vars

\* The trigger phrases as the specification lists them.
ClaimedTriggers ==
    { <<"bill", "banao">>, <<"create", "bill">>, <<"sell", "product">>,
      <<"create", "a", "sell", "bill">>, <<"sell", "bill">> }

HasTrigger(u) == \E p \in ClaimedTriggers : includes(toLowerCase(u), p)

NavigateTimers(ts) == {i \in 1..Len(ts) : ts[i].kind = "navigate"}

SalePrompt == "Creating a new bill. Let me take you to the sales page."

SalePromptSpoken == \E i \in Calls(effects, "speak") : effects[i].text = SalePrompt

\* StartSale: listening stopped, the prompt spoken, one navigation scheduled.
StartSale ==
    /\ Emitted("stopListening")' /\ ~isListening'
    /\ SalePromptSpoken'
    /\ Cardinality(NavigateTimers(timers')) = Cardinality(NavigateTimers(timers)) + 1

\* C17: idle, a transcript whose lower case contains a trigger phrase as a substring
\* starts the sale; any other transcript does nothing at all.
DispatcherFiresOnTrigger ==
    [][(lastEvent'.kind = "result" /\ activeField = None /\ isListening) =>
          IF HasTrigger(lastEvent'.input)
          THEN StartSale
          ELSE /\ effects' = <<>>
               /\ UNCHANGED <<isListening, timers, activeField, conversationStep,
                              assistantMessage, processingCommand>>]_vars

SubstringTriggerFired ==
    /\ lastEvent.kind = "result"
    /\ lastEvent.input = <<"resell", "products">>
    /\ activeField = None
    /\ SalePromptSpoken
    /\ NavigateTimers(timers) # {}
    /\ ~isListening

\* C18: while a field is active a transcript, trigger phrase or not, goes to the
\* field's handler only: no navigation is scheduled and the sale prompt is not spoken.
ActiveFieldTakesTranscript ==
    [][(lastEvent'.kind = "result" /\ activeField # None /\ isListening) =>
          /\ NavigateTimers(timers') = NavigateTimers(timers)
          /\ ~SalePromptSpoken'
          /\ assistantMessage'.text # SalePrompt
          /\ Dispatches]_vars

TriggerTakenAsName ==
    /\ lastEvent.kind = "result"
    /\ lastEvent.input = <<"create", "a", "sell", "bill">>
    /\ activeField = "customer_name"
    /\ NavigateTimers(timers) = {}
    /\ \E i \in ProcessTimers : timers[i].input = <<"create", "a", "sell", "bill">>

\* The navigation timers a step adds, as a number (negative when it removes some).
NavigateTimersAdded ==
    Cardinality(NavigateTimers(timers')) - Cardinality(NavigateTimers(timers))

\* C19: a recognized trigger speaks the sale prompt and schedules one navigation the
\* settle delay later, without navigating yet; each navigation is the firing of one
\* such timer, and nothing else navigates or touches the navigation timers.
NavigationOncePerTrigger ==
    [][IF lastEvent'.kind = "result" /\ activeField = None /\ isListening /\ HasTrigger(lastEvent'.input)
       THEN /\ SalePromptSpoken'
            /\ ~Emitted("navigate")'
            /\ NavigateTimersAdded = 1
            /\ timers'[Len(timers')].kind = "navigate"
            /\ timers'[Len(timers')].left = NavigateDelay
       ELSE IF lastEvent'.kind = "navigate"
       THEN /\ Count(effects', "navigate") = 1
            /\ NavigateTimersAdded = -1
            /\ lastEvent'.pos \in NavigateTimers(timers)
            /\ timers[lastEvent'.pos].left = 0
       ELSE /\ ~Emitted("navigate")'
            /\ NavigateTimersAdded = 0]_vars

NavigatedAfterDelay ==
    /\ lastEvent.kind = "navigate"
    /\ Count(effects, "navigate") = 1
    /\ urlAssistant
    /\ NavigateTimers(timers) = {}

\* C20: the trigger's navigation is followed by the controller entering customer_name,
\* step 1, with its prompt and listening, and it enters once per trigger: the flow is
\* started from idle, and not again after the conversation it started has ended with
\* generate_bill.
FlowEnteredOncePerTrigger ==
    [][lastEvent'.kind = "autostart" =>
          /\ activeField = None
          /\ generated = 0
          /\ activeField' = "customer_name"
          /\ conversationStep' = 1
          /\ assistantMessage'.text = "What is the customer's name?"
          /\ isListening']_vars

\* The fillers a field's handler strips, and the callback it reports its value with.
FillersOf(field) ==
    CASE field = "customer_name" -> CustomerNameFillers
      [] field = "vehicle_info" -> VehicleInfoFillers
      [] field = "product_search" -> ProductSearchFillers

CallbackOf(field) == IF field = "product_search" THEN "onProductSearch" ELSE "onFieldUpdate"

StrippingFields == {"customer_name", "vehicle_info", "product_search"}

\* How many leading words of t are a recognized filler (matched whatever the case,
\* and followed by more text); 0 when t starts with none.
LeadingFiller(fillers, t) == Len(t) - Len(StripPrefix(fillers, toLowerCase(t)))

\* The text of t that follows its leading filler, as it was said.
Remaining(fillers, t) == SubSeq(t, LeadingFiller(fillers, t) + 1, Len(t))

\* The values the effects es report with callback op.
Reported(es, op) == {es[i].arg : i \in Calls(es, op)}

\* C21: an utterance heard in customer_name advances to vehicle_info and one heard in
\* vehicle_info to product_search; each calls the field-update callback once, for the
\* field it was heard in, with the transcript less its leading filler; one heard in
\* product_search sends the transcript less its leading filler as the search query, once.
UtteranceReportedOnce ==
    [][(lastEvent'.kind = "process" /\ lastEvent'.af \in StrippingFields) =>
          /\ Count(effects', CallbackOf(lastEvent'.af)) = 1
          /\ Count(effects', "onFieldUpdate") + Count(effects', "onProductSearch") = 1
          /\ \A i \in Calls(effects', "onFieldUpdate") : effects'[i].text = lastEvent'.af
          /\ Reported(effects', CallbackOf(lastEvent'.af)) =
                {Remaining(FillersOf(lastEvent'.af), transcript)}
          /\ lastEvent'.af = "customer_name" => activeField' = "vehicle_info"
          /\ lastEvent'.af = "vehicle_info" => activeField' = "product_search"]_vars

\* C22: the customer's name is what follows a recognized leading filler of the
\* transcript ("my name is John" gives "John"), and the whole transcript when it starts
\* with no recognized filler.
PrefixStripping ==
    [][(lastEvent'.kind = "process" /\ lastEvent'.af = "customer_name") =>
          IF LeadingFiller(CustomerNameFillers, transcript) > 0
          THEN Reported(effects', "onFieldUpdate") =
                  {SubSeq(transcript, LeadingFiller(CustomerNameFillers, transcript) + 1,
                          Len(transcript))}
          ELSE Reported(effects', "onFieldUpdate") = {transcript}]_vars

\* C23: stripping is idempotent: stripping the value a handler has stripped gives the
\* same value, for each of the three filler sets.
StrippingIdempotent ==
    [][(lastEvent'.kind = "process" /\ lastEvent'.af \in StrippingFields) =>
          \A v \in Reported(effects', CallbackOf(lastEvent'.af)) :
              StripPrefix(FillersOf(lastEvent'.af), v) = v]_vars

\* C30: the transcript changes only on a final result, and the controller takes no
\* utterance from an interim one.
TranscriptOnlyFromFinal ==
    [][(lastEvent'.kind = "result" /\ ~lastEvent'.isFinal) =>
          /\ transcript' = transcript
          /\ timers' = timers
          /\ effects' = <<>>]_vars

ActivateTimers(ts) == {i \in 1..Len(ts) : ts[i].kind = "activate"}

OneUtteranceAtATime ==
    /\ utterances <= 1
    /\ Emitted("speak") => utterances = 1

PromptCancelledPrompt ==
    /\ lastEvent.kind \in {"process", "search"}
    /\ \E i \in Calls(effects, "speak") : effects[i].num = 1
    /\ utterances = 1

ReportedFailed == \E i \in Calls(effects, "toast.error") : effects[i].text = "Failed to generate bill"

\* C27: when bill generation is reported as failed the backend is as the call found
\* it: no bill row, no item rows and no stock decrement of the call is left.
BillGenerationAtomic ==
    [][ReportedFailed' => db' = job.before]_vars

\* A cart line whose quantity is a number from 1 to the stock of its product.
WithinStock(item) ==
    /\ IsNumber(item.quantity)
    /\ 1 <= item.quantity
    /\ item.quantity <= item.product_quantity

\* C28: every cart line has a quantity from 1 to its product's stock, and an add or a
\* quantity change that is refused leaves the cart as it was.
QuantityWithinStock ==
    [][/\ \A i \in 1..Len(cartItems') : WithinStock(cartItems'[i])
       /\ (lastEvent'.kind \in {"addToCart", "updateQuantity"} /\ Emitted("toast.error")') =>
             cartItems' = cartItems]_vars

\* A cart line whose amounts are numbers, with the profit the claim gives.
ProfitOf(item) ==
    /\ IsNumber(item.quantity) /\ IsNumber(item.sellPrice) /\ IsNumber(item.profit)
    /\ item.profit = item.sellPrice - item.quantity * item.originalPrice

RECURSIVE SumOfSellPrice(_)
SumOfSellPrice(items) ==
    IF items = <<>> THEN 0 ELSE Head(items).sellPrice + SumOfSellPrice(Tail(items))

\* C29: every cart line has profit = sellPrice - quantity * originalPrice; an added
\* unit or a changed quantity leaves sellPrice / quantity as it was; and the total is
\* the sum of the lines' sellPrice.
ProfitComputed ==
    [][/\ \A i \in 1..Len(cartItems') : ProfitOf(cartItems'[i])
       /\ lastEvent'.kind \in {"addToCart", "updateQuantity"} =>
             \A i \in 1..Len(cartItems) :
                 cartItems'[i].sellPrice * cartItems[i].quantity =
                    cartItems[i].sellPrice * cartItems'[i].quantity
       /\ calculateTotal' = SumOfSellPrice(cartItems')]_vars


\* C31: when the recognizer ends, it runs again afterwards exactly if the listening
\* session is active: it is restarted while isListening is true, and it is left ended
\* after stopListening.
ContinuousListening ==
    [][lastEvent'.kind = "engine_end" => ((engine' = "on") <=> isListening)]_vars

\* C34: a recognition error ends the listening session: right after the recognizer has
\* reported an error, isListening is false.
ErrorEndsListening ==
    [][lastEvent'.kind = "engine_error" => ~isListening']_vars


\* C33: while a field is active the displayed message is a prompt of the conversation:
\* neither the delayed reset after a terminal answer nor the listening effect has put
\* an idle message in its place.
IdleMessages == {"How can I help you?", "Listening..."}

PromptKeptWhileActive ==
    activeField # None => assistantMessage.text \notin IdleMessages


\* C32: after an utterance heard in an active field, other than a terminal answer in
\* confirm_bill, the assistant eventually listens again, the recognizer running, with
\* a field still active.
TerminalAnswer(input) ==
    /\ MatchesAny(TerminalWords, toLowerCase(input))
    /\ ~MatchesAny(AffirmativeWords, toLowerCase(input))

HeardInField ==
    /\ lastEvent.kind = "result"
    /\ activeField # None
    /\ ~(activeField = "confirm_bill" /\ TerminalAnswer(lastEvent.input))

ListeningInField == isListening /\ engine = "on" /\ activeField # None

ConversationResumes == HeardInField ~> ListeningInField

\* An answer that was not understood in add_product has been handled, and the
\* assistant listens again in add_product.
ResumedAfterUnrecognized ==
    /\ lastEvent.kind = "process"
    /\ lastEvent.af = "add_product"
    /\ Rejected("add_product", lastEvent.input, lastEvent.results)
    /\ activeField = "add_product"
    /\ ListeningInField


\* C35: handleGenerateBill called with an empty customer name or an empty cart writes
\* nothing to the backend and starts no request, leaves the cart, the customer name
\* and the vehicle information as they are, and shows an error.
GenerateBillRejected ==
    [][ /\ lastEvent'.kind = "handleGenerateBill"
        /\ customerName = "" \/ cartItems = <<>>
        => /\ db' = db
           /\ job' = NoJob
           /\ cartItems' = cartItems
           /\ customerName' = customerName
           /\ vehicleInfo' = vehicleInfo
           /\ Calls(effects', "toast.error") # {} ]_vars

\* Generate Bill was clicked with products in the cart and no customer name.
RejectedWithoutName ==
    /\ lastEvent.kind = "handleGenerateBill"
    /\ customerName = ""
    /\ cartItems # <<>>
    /\ vehicleInfo # ""
    /\ job = NoJob
    /\ Calls(effects, "toast.error") # {}

\* C36: the step that reports a bill as generated empties the cart, the customer name
\* and the vehicle information; a step that reports the failure of a backend request
\* leaves the three as they were when Generate Bill was clicked.
ReportedGenerated ==
    \E i \in Calls(effects, "toast.success") : effects[i].text = "Bill generated successfully"

FormAfterGenerateBill ==
    [][ /\ ReportedGenerated' => cartItems' = <<>> /\ customerName' = "" /\ vehicleInfo' = ""
        /\ ReportedFailed' => /\ cartItems' = cartItems /\ cartItems' = job.cart
                              /\ customerName' = customerName
                              /\ vehicleInfo' = vehicleInfo ]_vars

\* A backend request has failed after the bill row was written, and the form still
\* holds what the user entered.
FailedWithFormKept ==
    /\ ReportedFailed
    /\ db.bills = 1
    /\ cartItems # <<>>
    /\ customerName # ""
    /\ vehicleInfo # ""


\* No two lines of the cart are of the same product.
OneLinePerProduct(items) ==
    \A i, j \in 1..Len(items) : items[i].id = items[j].id => i = j

\* The step added a product that the cart already had a line of.
AddedAgain ==
    /\ lastEvent'.kind = "addToCart"
    /\ \E i \in Calls(effects', "toast.success") : effects'[i].text = "added to cart"
    /\ Len(cartItems') = Len(cartItems)

\* items without its i-th line.
WithoutLine(items, i) ==
    [j \in 1..(Len(items) - 1) |-> IF j < i THEN items[j] ELSE items[j + 1]]

\* The step removed exactly one line and left the others as they were.
RemovedOneLine ==
    lastEvent'.kind = "removeFromCart" =>
        \E i \in 1..Len(cartItems) : cartItems' = WithoutLine(cartItems, i)

NextPressed == lastEvent'.kind = "handleNext"

WizardSteps ==
    [][ /\ dialog'.step \in {1, 2, 3}
        /\ NextPressed /\ dialog.step = 1 =>
              dialog'.step = IF dialog.details.customerName # "" THEN 2 ELSE 1
        /\ NextPressed /\ dialog.step = 2 =>
              dialog'.step = IF dialog.details.productName # "" THEN 3 ELSE 2
        /\ dialog.saving = <<>> /\ dialog'.saving # <<>> =>
              /\ NextPressed
              /\ dialog.step = 3
              /\ dialog'.step = 3
        /\ \A i \in Calls(effects', "onSave") :
              /\ effects'[i].arg[1] # ""
              /\ effects'[i].arg[2] # ""
              /\ dialog'.step = 1
              /\ dialog'.details = DefaultDetails
              /\ ~dialog'.isOpen
              /\ ~dialog'.isSaving ]_vars

\* A sale has been saved from the wizard.
SaleSaved ==
    /\ lastEvent.kind = "handleSave"
    /\ Reported(effects, "onSave") = {<<"Raj", "brake pad">>}
    /\ dialog.step = 1
    /\ ~dialog.isOpen

=============================================================================
